---- MODULE Spec2Model ----
(***************************************************************************)
(* A model of widget/simple_widget.go: SimpleWidgetBase, the delegating    *)
(* base of a SimpleWidget.  The state is the delegate reference impl, its  *)
(* guard propertyLock (a sync.RWMutex), the caller-supplied lockers handed *)
(* to SetStateSafe, and, per goroutine, the stack of calls into the base   *)
(* that are in progress.  Every statement of a method that touches shared  *)
(* state or runs external code (the mutator, a delegate's Render or        *)
(* Refresh) is one step, so that goroutines interleave between the         *)
(* statements as they do in the program, and external code may call back   *)
(* into the base or end with a runtime fault (a panic).                    *)
(***************************************************************************)
EXTENDS Integers, Sequences, FiniteSets, TLC

\* ------------------------------------------------------------- bounds
\* Goroutines, calls into the base per run (concurrent runs, and runs of a
\* single goroutine), and the largest size handed to a layout callback.
NumThreads == 2
MaxCalls == 2
MaxSeqCalls == 3
MaxSize == 1

Threads == 1..NumThreads
Sizes == 0..MaxSize
\* The widgets that may be registered as the delegate.
Delegates == {"w1", "w2"}
\* The sync.Locker values callers hand to SetStateSafe.
Lockers == {"m1", "m2"}

\* The nil SimpleWidget and the base itself (s).
Nil == "nil"
Self == "self"
\* The callback func(fyne.Size) {} of the default Render.
NoopLayout == "noop"

VARIABLES impl, propertyLock, mu, baseConforms, stack, left, hostExtends, renderers

vars == <<impl, propertyLock, mu, baseConforms, stack, left, hostExtends, renderers>>

\* ------------------------------------------------------------ frames
\* A call in progress: the method, the statement it is at, its argument
\* (the widget, the locker or the layout callback), the local impl of
\* getImpl, the delegate super() resolved, what Render returned, and the
\* trace of what the call has done so far.
NoRender == [objs |-> <<>>, layout |-> "none"]

NewFrame(op, pc, arg, size, log) ==
    [op |-> op, pc |-> pc, arg |-> arg, size |-> size, loc |-> Nil, w |-> Nil,
     out |-> NoRender, log |-> log]

Top(t) == stack[t][Len(stack[t])]

SetTop(t, f) == [stack EXCEPT ![t] = [@ EXCEPT ![Len(@)] = f]]

\* The statements at which external code is running.
ExternalPcs == {"f", "in_render", "in_refresh"}

SuperOps == {"CreateRenderer", "SetState", "SetStateSafe"}

InPc(t, op, pc) == stack[t] # <<>> /\ Top(t).op = op /\ Top(t).pc = pc

AtPc(t, pc) == stack[t] # <<>> /\ Top(t).pc = pc

\* A call can start at top level or from inside running external code.
CanCall(t) ==
    /\ left > 0
    /\ IF stack[t] = <<>> THEN TRUE ELSE Top(t).pc \in ExternalPcs

\* Push a call; the caller's trace records the call it makes.
Push(t, f) ==
    IF stack[t] = <<>>
    THEN [stack EXCEPT ![t] = <<f>>]
    ELSE [stack EXCEPT ![t] =
            Append([@ EXCEPT ![Len(@)].log = Append(@, <<"call", f.op>>)], f)]

\* ------------------------------------------------- what Render returns
\* A default Render that returns an object of its own.
BaseRenderWithObject == [objs |-> <<Self>>, layout |-> NoopLayout]

\* The default Render of the base: no objects, a callback that does nothing.
BaseRender == [objs |-> <<>>, layout |-> NoopLayout]

\* An overriding Render of delegate d: its own objects and layout callback.
DelegateRender(d) == [objs |-> <<d>>, layout |-> d]

newSimpleRenderer(wdgt, objs, layout) == [wid |-> wdgt, objs |-> objs, layout |-> layout]

\* ---------------------------------------------------------------- Init
\* A widget as constructed: no delegate, nothing locked; n calls may follow.
InitWith(n) ==
    /\ impl = Nil
    /\ propertyLock = [readers |-> {}, writers |-> {}]
    /\ mu = [m \in Lockers |-> {}]
    /\ baseConforms \in BOOLEAN
    /\ stack = [t \in Threads |-> <<>>]
    /\ left = n
    /\ hostExtends = 0
    /\ renderers = {}

Init == InitWith(MaxCalls)

InitSeq == InitWith(MaxSeqCalls)

\* ------------------------------------------------------- entering calls
CallExtendBaseWidget(t, wid) ==
    /\ CanCall(t)
    /\ stack' = Push(t, NewFrame("ExtendBaseWidget", "rlock", wid, 0, <<>>))
    /\ left' = left - 1
    /\ UNCHANGED <<impl, propertyLock, mu, baseConforms, hostExtends, renderers>>

CallCreateRenderer(t) ==
    /\ CanCall(t)
    /\ stack' = Push(t, NewFrame("CreateRenderer", "rlock", Nil, 0, <<>>))
    /\ left' = left - 1
    /\ UNCHANGED <<impl, propertyLock, mu, baseConforms, hostExtends, renderers>>

\* SetState begins by running the mutator.
CallSetState(t) ==
    /\ CanCall(t)
    /\ stack' = Push(t, NewFrame("SetState", "f", Nil, 0, <<<<"f_begin", "">>>>))
    /\ left' = left - 1
    /\ UNCHANGED <<impl, propertyLock, mu, baseConforms, hostExtends, renderers>>

CallSetStateSafe(t, m) ==
    /\ CanCall(t)
    /\ stack' = Push(t, NewFrame("SetStateSafe", "mlock", m, 0, <<>>))
    /\ left' = left - 1
    /\ UNCHANGED <<impl, propertyLock, mu, baseConforms, hostExtends, renderers>>

\* The host invokes the layout callback of a renderer it was given.
CallLayout(t, r, size) ==
    /\ left > 0
    /\ stack[t] = <<>>
    /\ r \in renderers
    /\ stack' = Push(t, NewFrame("Layout", "layout", r.layout, size, <<>>))
    /\ left' = left - 1
    /\ UNCHANGED <<impl, propertyLock, mu, baseConforms, hostExtends, renderers>>

\* ---------------------------------------------------------- propertyLock
\* sync.RWMutex: any number of readers, or one writer.
CanRLock == propertyLock.writers = {}

CanLock == propertyLock.writers = {} /\ propertyLock.readers = {}

RLocked(t) == [propertyLock EXCEPT !.readers = @ \cup {t}]

\* An RUnlock that is left out.
RUnlockedNot(t) == propertyLock

RUnlocked(t) == [propertyLock EXCEPT !.readers = @ \ {t}]

Locked(t) == [propertyLock EXCEPT !.writers = {t}]

Unlocked(t) == [propertyLock EXCEPT !.writers = @ \ {t}]

\* -------------------------------------------------------------- getImpl
GetImplRLock(t) ==
    /\ AtPc(t, "rlock")
    /\ CanRLock
    /\ propertyLock' = RLocked(t)
    /\ stack' = SetTop(t, [Top(t) EXCEPT !.pc = "read"])
    /\ UNCHANGED <<impl, mu, baseConforms, left, hostExtends, renderers>>

GetImplRead(t) ==
    /\ AtPc(t, "read")
    /\ stack' = SetTop(t, [Top(t) EXCEPT !.pc = "runlock", !.loc = impl,
                                         !.log = Append(@, <<"getImpl", impl>>)])
    /\ UNCHANGED <<impl, propertyLock, mu, baseConforms, left, hostExtends, renderers>>

\* A super() that ignores the registered delegate.
SuperResultIgnoringImpl(loc) == IF baseConforms THEN Self ELSE "fault"

\* super(): the registered delegate, or the base itself asserted to be a
\* SimpleWidget; the assertion panics when the base is none.
SuperResult(loc) == IF loc # Nil THEN loc ELSE IF baseConforms THEN Self ELSE "fault"

AfterSuper(f) ==
    LET x == SuperResult(f.loc) IN
    IF x = "fault"
    THEN [f EXCEPT !.pc = "panic", !.log = Append(@, <<"fault", "super">>)]
    ELSE [f EXCEPT !.pc = IF f.op = "CreateRenderer" THEN "render" ELSE "refresh",
                   !.w = x, !.log = Append(@, <<"super", x>>)]

\* An ExtendBaseWidget without the check of impl.
AfterGetImplUnchecked(f) ==
    IF f.op = "ExtendBaseWidget" THEN [f EXCEPT !.pc = "host"] ELSE AfterSuper(f)

\* ExtendBaseWidget returns when getImpl found a delegate.
AfterGetImpl(f) ==
    IF f.op = "ExtendBaseWidget"
    THEN [f EXCEPT !.pc = IF f.loc # Nil THEN "done" ELSE "host"]
    ELSE AfterSuper(f)

GetImplRUnlock(t) ==
    /\ AtPc(t, "runlock")
    /\ propertyLock' = RUnlocked(t)
    /\ stack' = SetTop(t, AfterGetImpl(Top(t)))
    /\ UNCHANGED <<impl, mu, baseConforms, left, hostExtends, renderers>>

\* ----------------------------------------------------- ExtendBaseWidget
ExtHost(t) ==
    /\ InPc(t, "ExtendBaseWidget", "host")
    /\ hostExtends' = hostExtends + 1
    /\ stack' = SetTop(t, [Top(t) EXCEPT !.pc = "lock", !.log = Append(@, <<"host", Top(t).arg>>)])
    /\ UNCHANGED <<impl, propertyLock, mu, baseConforms, left, renderers>>

ExtLock(t) ==
    /\ InPc(t, "ExtendBaseWidget", "lock")
    /\ CanLock
    /\ propertyLock' = Locked(t)
    /\ stack' = SetTop(t, [Top(t) EXCEPT !.pc = "write"])
    /\ UNCHANGED <<impl, mu, baseConforms, left, hostExtends, renderers>>

ExtWrite(t) ==
    /\ InPc(t, "ExtendBaseWidget", "write")
    /\ impl' = Top(t).arg
    /\ stack' = SetTop(t, [Top(t) EXCEPT !.pc = "unlock", !.log = Append(@, <<"set", Top(t).arg>>)])
    /\ UNCHANGED <<propertyLock, mu, baseConforms, left, hostExtends, renderers>>

ExtUnlock(t) ==
    /\ InPc(t, "ExtendBaseWidget", "unlock")
    /\ propertyLock' = Unlocked(t)
    /\ stack' = SetTop(t, [Top(t) EXCEPT !.pc = "done"])
    /\ UNCHANGED <<impl, mu, baseConforms, left, hostExtends, renderers>>

\* ------------------------------------------------------- CreateRenderer
\* A CreateRenderer that calls s.Render() in place of wdgt.Render().
RenderStepOfBase(f) ==
    [f EXCEPT !.pc = "new", !.out = BaseRender, !.log = Append(@, <<"render", Self>>)]

\* wdgt.Render(): the base's own Render returns at once, a delegate's runs
\* as external code.
RenderStep(f) ==
    IF f.w = Self
    THEN [f EXCEPT !.pc = "new", !.out = BaseRender, !.log = Append(@, <<"render", Self>>)]
    ELSE [f EXCEPT !.pc = "in_render", !.log = Append(@, <<"render", f.w>>)]

CRRender(t) ==
    /\ InPc(t, "CreateRenderer", "render")
    /\ stack' = SetTop(t, RenderStep(Top(t)))
    /\ UNCHANGED <<impl, propertyLock, mu, baseConforms, left, hostExtends, renderers>>

CRRenderReturn(t) ==
    /\ InPc(t, "CreateRenderer", "in_render")
    /\ stack' = SetTop(t, [Top(t) EXCEPT !.pc = "new", !.out = DelegateRender(Top(t).w)])
    /\ UNCHANGED <<impl, propertyLock, mu, baseConforms, left, hostExtends, renderers>>

CreatedRenderer(f) == newSimpleRenderer(f.w, f.out.objs, f.out.layout)

CRNew(t) ==
    /\ InPc(t, "CreateRenderer", "new")
    /\ renderers' = renderers \cup {CreatedRenderer(Top(t))}
    /\ stack' = SetTop(t, [Top(t) EXCEPT !.pc = "done", !.log = Append(@, <<"new", Top(t).w>>)])
    /\ UNCHANGED <<impl, propertyLock, mu, baseConforms, left, hostExtends>>

\* -------------------------------------------- SetState and SetStateSafe
\* A SetStateSafe that does not unlock before it refreshes.
AfterMutatorKeepingLock(f) == [f EXCEPT !.pc = "rlock", !.log = Append(@, <<"f_end", "">>)]

\* The statement after setState() returns.
AfterMutator(f) ==
    [f EXCEPT !.pc = IF f.op = "SetStateSafe" THEN "munlock" ELSE "rlock",
              !.log = Append(@, <<"f_end", "">>)]

MutatorReturn(t) ==
    /\ AtPc(t, "f")
    /\ stack' = SetTop(t, AfterMutator(Top(t)))
    /\ UNCHANGED <<impl, propertyLock, mu, baseConforms, left, hostExtends, renderers>>

\* A Lock that does not wait.
LockerFreeAlways(m) == TRUE

\* mu[m] is the set of goroutines holding locker m: at most one.
LockerFree(m) == mu[m] = {}

SSSLock(t) ==
    /\ InPc(t, "SetStateSafe", "mlock")
    /\ LockerFree(Top(t).arg)
    /\ mu' = [mu EXCEPT ![Top(t).arg] = {t}]
    /\ stack' = SetTop(t, [Top(t) EXCEPT !.pc = "f",
                              !.log = Append(Append(@, <<"lock", Top(t).arg>>), <<"f_begin", "">>)])
    /\ UNCHANGED <<impl, propertyLock, baseConforms, left, hostExtends, renderers>>

SSSUnlock(t) ==
    /\ InPc(t, "SetStateSafe", "munlock")
    /\ mu' = [mu EXCEPT ![Top(t).arg] = {}]
    /\ stack' = SetTop(t, [Top(t) EXCEPT !.pc = "rlock", !.log = Append(@, <<"unlock", Top(t).arg>>)])
    /\ UNCHANGED <<impl, propertyLock, baseConforms, left, hostExtends, renderers>>

\* A SetState that returns without the Refresh.
RefreshStepSkipped(f) == [f EXCEPT !.pc = "done"]

\* super().Refresh(): the host's Refresh of the base returns at once, a
\* delegate's Refresh runs as external code.
RefreshStep(f) ==
    [f EXCEPT !.pc = IF f.w = Self THEN "done" ELSE "in_refresh",
              !.log = Append(@, <<"refresh", f.w>>)]

Refresh(t) ==
    /\ AtPc(t, "refresh")
    /\ stack' = SetTop(t, RefreshStep(Top(t)))
    /\ UNCHANGED <<impl, propertyLock, mu, baseConforms, left, hostExtends, renderers>>

RefreshReturn(t) ==
    /\ AtPc(t, "in_refresh")
    /\ stack' = SetTop(t, [Top(t) EXCEPT !.pc = "done"])
    /\ UNCHANGED <<impl, propertyLock, mu, baseConforms, left, hostExtends, renderers>>

\* --------------------------------------------------- layout callbacks
\* The callback runs on the size it is given.  The callback of the default
\* Render has an empty body; a delegate's callback lays out the delegate's
\* own objects and touches nothing of the base.
LayoutStep(f) == [f EXCEPT !.pc = "done", !.log = Append(@, <<"layout", f.arg>>)]

LayoutRun(t) ==
    /\ InPc(t, "Layout", "layout")
    /\ stack' = SetTop(t, LayoutStep(Top(t)))
    /\ UNCHANGED <<impl, propertyLock, mu, baseConforms, left, hostExtends, renderers>>

\* ------------------------------------------------- returns and faults
\* A finished call returns to its caller.
Return(t) ==
    /\ AtPc(t, "done")
    /\ stack' = [stack EXCEPT ![t] = SubSeq(@, 1, Len(@) - 1)]
    /\ UNCHANGED <<impl, propertyLock, mu, baseConforms, left, hostExtends, renderers>>

\* External code panics.
Fault(t) ==
    /\ stack[t] # <<>>
    /\ Top(t).pc \in ExternalPcs
    /\ stack' = SetTop(t, [Top(t) EXCEPT !.pc = "panic", !.log = Append(@, <<"fault", Top(t).pc>>)])
    /\ UNCHANGED <<impl, propertyLock, mu, baseConforms, left, hostExtends, renderers>>

\* The panic unwinds the goroutine's calls; none of them has a deferred
\* call pending at a statement where external code runs, so nothing is
\* released on the way.  It is recovered at the goroutine's top.
Unwind(t) ==
    /\ AtPc(t, "panic")
    /\ stack' = [stack EXCEPT ![t] = <<>>]
    /\ UNCHANGED <<impl, propertyLock, mu, baseConforms, left, hostExtends, renderers>>

\* ----------------------------------------------------------------- Next
Step(t) ==
    \/ \E wid \in Delegates : CallExtendBaseWidget(t, wid)
    \/ CallCreateRenderer(t)
    \/ CallSetState(t)
    \/ \E m \in Lockers : CallSetStateSafe(t, m)
    \/ \E r \in renderers, size \in Sizes : CallLayout(t, r, size)
    \/ GetImplRLock(t)
    \/ GetImplRead(t)
    \/ GetImplRUnlock(t)
    \/ ExtHost(t)
    \/ ExtLock(t)
    \/ ExtWrite(t)
    \/ ExtUnlock(t)
    \/ CRRender(t)
    \/ CRRenderReturn(t)
    \/ CRNew(t)
    \/ MutatorReturn(t)
    \/ SSSLock(t)
    \/ SSSUnlock(t)
    \/ Refresh(t)
    \/ RefreshReturn(t)
    \/ LayoutRun(t)
    \/ Return(t)
    \/ Fault(t)
    \/ Unwind(t)

Next == \E t \in Threads : Step(t)

Spec == Init /\ [][Next]_vars

\* One goroutine alone: the calls of a run happen in sequence.
NextSeq == Step(1)

SeqSpec == InitSeq /\ [][NextSeq]_vars

\* Every goroutine that can take a step eventually takes one: the Go
\* scheduler runs every runnable goroutine, and external code ends.
FairSpec == Spec /\ \A t \in Threads : WF_vars(Step(t))

\* ------------------------------------------------------------ the claims
TopOf(st, t) == st[t][Len(st[t])]

Frames == UNION {{stack[t][i] : i \in 1..Len(stack[t])} : t \in Threads}

FramesOf(op) == {f \in Frames : f.op = op}

\* The places of a call's trace at which it did `kind`.
Positions(log, kind) == {i \in 1..Len(log) : log[i][1] = kind}

Count(log, kind) == Cardinality(Positions(log, kind))

\* The kinds of a trace, in order, without the calls external code made.
Kinds(log) ==
    LET own == SelectSeq(log, LAMBDA e : e[1] # "call")
    IN [i \in 1..Len(own) |-> own[i][1]]

\* Goroutine t took a step.
Moved(t) == stack'[t] # stack[t]

\* C1: once impl is set it never changes again and never returns to unset,
\* under any interleaving of concurrent ExtendBaseWidget calls: the first
\* registered value stays.
C1_FirstWriterWins == [][impl # Nil => impl' = impl]_vars

\* C2: with the calls in sequence, once a delegate is registered a further
\* ExtendBaseWidget has no effect: impl stays, the host's ExtendBaseWidget is
\* not invoked again, the call returns at once without a fault, and super()
\* returns the stored delegate.
C2_SecondRegistrationNoEffect ==
    /\ [](\A f \in Frames : f.w \in Delegates => f.w = impl)
    /\ [][impl # Nil =>
            /\ impl' = impl
            /\ hostExtends' = hostExtends
            /\ \A t \in Threads :
                 InPc(t, "ExtendBaseWidget", "runlock") /\ Moved(t) =>
                   stack'[t] = SetTop(t, [Top(t) EXCEPT !.pc = "done"])[t]]_vars

C2_Witness ==
    /\ impl = "w1"
    /\ hostExtends = 1
    /\ \E f \in FramesOf("ExtendBaseWidget") :
         f.arg = "w2" /\ f.pc = "done" /\ f.log = <<<<"getImpl", "w1">>>>

\* C3: a SetState call triggers no Refresh before or while its mutator
\* runs and never more than one; the Refresh is on the delegate resolved
\* after the mutator ended; and a call that returns has triggered exactly
\* one, whatever the mutator did (registering a delegate included).
C3_OneRefreshAfterMutator ==
    \A f \in FramesOf("SetState") :
      /\ Count(f.log, "refresh") <= 1
      /\ f.pc = "f" => Count(f.log, "refresh") = 0
      /\ \A i \in Positions(f.log, "refresh") :
           /\ f.log[i] = <<"refresh", f.w>>
           /\ \E j \in Positions(f.log, "f_end"), k \in Positions(f.log, "super") :
                j < k /\ k < i /\ f.log[k] = <<"super", f.w>>
      /\ f.pc = "done" => Kinds(f.log) = <<"f_begin", "f_end", "getImpl", "super", "refresh">>

C3_Witness ==
    \E f \in FramesOf("SetState") :
      /\ f.pc = "done"
      /\ \E i \in 1..Len(f.log) : f.log[i] = <<"call", "ExtendBaseWidget">>
      /\ \E i \in 1..Len(f.log) : f.log[i] = <<"refresh", "w1">>
      /\ impl = "w1"

\* C4: a SetStateSafe call locks, runs the mutator, unlocks and only then
\* refreshes: from its unlock until it triggers the Refresh the caller does
\* not hold the locker, and a call that returns did the four in this order.
C4_UnlockBeforeRefresh ==
    \A t \in Threads : \A n \in 1..Len(stack[t]) :
      LET f == stack[t][n] IN
      f.op = "SetStateSafe" =>
        /\ \A i \in Positions(f.log, "refresh") :
             \E j \in Positions(f.log, "unlock") : j < i /\ f.log[j] = <<"unlock", f.arg>>
        /\ f.pc \in {"rlock", "read", "runlock", "refresh"} => t \notin mu[f.arg]
        /\ f.pc = "done" =>
             Kinds(f.log) = <<"lock", "f_begin", "f_end", "unlock", "getImpl", "super", "refresh">>

C4_Witness ==
    \E f \in FramesOf("SetStateSafe") :
      f.pc = "in_refresh" /\ f.arg = "m1" /\ mu["m1"] = {} /\ f.w = "w1"

\* C5: super() returns the delegate getImpl read when there is one; when
\* there is none it returns the base itself if the base is a SimpleWidget
\* and panics on the type assertion if it is not; and getImpl reads the
\* stored reference, so a registered delegate is what super() returns.
C5_SuperResolves ==
    /\ [](\A f \in Frames : \A i \in Positions(f.log, "getImpl") :
            (f.op \in SuperOps /\ i < Len(f.log)) =>
              LET v == f.log[i][2] IN
              /\ v # Nil => f.log[i + 1] = <<"super", v>> /\ f.w = v
              /\ (v = Nil /\ baseConforms) => f.log[i + 1] = <<"super", Self>> /\ f.w = Self
              /\ (v = Nil /\ ~baseConforms) => f.log[i + 1] = <<"fault", "super">> /\ f.pc = "panic")
    /\ [][\A t \in Threads :
            AtPc(t, "read") /\ Moved(t) =>
              /\ TopOf(stack', t).loc = impl
              /\ TopOf(stack', t).log = Append(Top(t).log, <<"getImpl", impl>>)]_vars

C5_Witness ==
    /\ ~baseConforms
    /\ \E f \in FramesOf("SetState") :
         f.pc = "panic" /\ f.log[Len(f.log)] = <<"fault", "super">>

\* What the Render of widget x returns.
RenderOf(x) == IF x = Self THEN BaseRender ELSE DelegateRender(x)

\* C6: a CreateRenderer call that returns has resolved the delegate once,
\* invoked that delegate's Render once, and built the renderer from the
\* resolved delegate and what that Render returned; a delegate found by
\* getImpl is the one rendered, and the base's own Render is used only
\* when getImpl found none.
C6_RendererFromDelegate ==
    /\ \A r \in renderers : r = newSimpleRenderer(r.wid, RenderOf(r.wid).objs, RenderOf(r.wid).layout)
    /\ \A f \in FramesOf("CreateRenderer") :
         /\ \A i \in Positions(f.log, "render") : f.log[i] = <<"render", f.w>>
         /\ f.pc \in {"new", "done"} => f.out = RenderOf(f.w)
         /\ f.pc = "done" =>
              /\ Kinds(f.log) = <<"getImpl", "super", "render", "new">>
              /\ f.log[1] = <<"getImpl", IF f.w = Self THEN Nil ELSE f.w>>
              /\ newSimpleRenderer(f.w, f.out.objs, f.out.layout) \in renderers

C6_Witness ==
    \E f \in FramesOf("CreateRenderer") :
      /\ f.pc = "done" /\ f.w = "w2"
      /\ [wid |-> "w2", objs |-> <<"w2">>, layout |-> "w2"] \in renderers

\* C7: the default Render returns no objects and a callback that, run on
\* any size, does nothing: the delegate reference, both kinds of lock, the
\* renderers and every other call stay as they were.
C7_DefaultRenderNoop ==
    /\ [](/\ \A r \in renderers : r.wid = Self => r.objs = <<>> /\ r.layout = NoopLayout
          /\ \A f \in FramesOf("CreateRenderer") :
               (f.w = Self /\ f.pc \in {"new", "done"}) => f.out = [objs |-> <<>>, layout |-> NoopLayout])
    /\ [][\A t \in Threads :
            (InPc(t, "Layout", "layout") /\ Top(t).arg = NoopLayout /\ Moved(t)) =>
              /\ impl' = impl /\ propertyLock' = propertyLock /\ mu' = mu
              /\ renderers' = renderers /\ hostExtends' = hostExtends /\ left' = left
              /\ \A u \in Threads \ {t} : stack'[u] = stack[u]
              /\ stack'[t] = SetTop(t, [Top(t) EXCEPT !.pc = "done",
                                           !.log = Append(@, <<"layout", NoopLayout>>)])[t]]_vars

C7_Witness ==
    \E f \in FramesOf("Layout") :
      f.pc = "done" /\ f.arg = NoopLayout /\ f.size = MaxSize /\ impl = Nil

\* C8: mutators run under the same locker never run at the same time, and
\* a mutator runs only while its caller holds the locker.
C8_MutatorsSerialized ==
    \A t \in Threads : \A n \in 1..Len(stack[t]) :
      LET f == stack[t][n] IN
      (f.op = "SetStateSafe" /\ f.pc = "f") =>
        /\ mu[f.arg] = {t}
        /\ \A u \in Threads : \A k \in 1..Len(stack[u]) :
             (stack[u][k].op = "SetStateSafe" /\ stack[u][k].pc = "f"
                /\ stack[u][k].arg = f.arg) => (u = t /\ k = n)

C8_Witness ==
    /\ InPc(1, "SetStateSafe", "f") /\ Top(1).arg = "m1"
    /\ InPc(2, "SetStateSafe", "mlock") /\ Top(2).arg = "m1"

\* Goroutine t holds propertyLock, as a reader or as the writer.
HoldsPropertyLock(t) == t \in propertyLock.readers \cup propertyLock.writers

\* Goroutine t is at an RLock or a Lock of propertyLock.
AwaitsPropertyLock(t) == AtPc(t, "rlock") \/ InPc(t, "ExtendBaseWidget", "lock")

\* C9 as amended: propertyLock is held only around the one read or the one
\* write of impl, by one writer or by readers, never while external code
\* or the host's ExtendBaseWidget runs or a locker is awaited; whoever
\* holds it can take its next step, and whoever waits for it can take it
\* or waits for a holder that can: no interleaving deadlocks on it.
C9_PropertyLockNeverDeadlocks ==
    /\ Cardinality(propertyLock.writers) <= 1
    /\ propertyLock.writers # {} => propertyLock.readers = {}
    /\ \A t \in propertyLock.readers : AtPc(t, "read") \/ AtPc(t, "runlock")
    /\ \A t \in propertyLock.writers :
         InPc(t, "ExtendBaseWidget", "write") \/ InPc(t, "ExtendBaseWidget", "unlock")
    /\ \A t \in Threads :
         (stack[t] # <<>> /\ Top(t).pc \in ExternalPcs \cup {"host", "mlock", "panic"})
           => ~HoldsPropertyLock(t)
    /\ \A t \in Threads : HoldsPropertyLock(t) => ENABLED Step(t)
    /\ \A t \in Threads :
         AwaitsPropertyLock(t) =>
           \/ ENABLED Step(t)
           \/ \E u \in Threads \ {t} : HoldsPropertyLock(u) /\ ENABLED Step(u)

C9_Witness ==
    /\ AtPc(1, "runlock") /\ 1 \in propertyLock.readers
    /\ InPc(2, "ExtendBaseWidget", "lock")

\* Locker m is held by a goroutine none of whose calls is between its
\* Lock and its Unlock of m.
LeftLocked(m) ==
    \E t \in mu[m] : \A i \in 1..Len(stack[t]) :
      ~(stack[t][i].op = "SetStateSafe" /\ stack[t][i].arg = m
          /\ stack[t][i].pc \in {"f", "munlock", "panic"})

\* C9 as stated: every call eventually completes.  It is taken here on the
\* runs in which no locker was left locked by a fault, so that what
\* refutes it is a call blocked by re-entrancy alone.
C9_EveryCallCompletes ==
    \A t \in Threads :
      (stack[t] # <<>>) ~> (stack[t] = <<>> \/ \E m \in Lockers : LeftLocked(m))

\* C10: when a SetStateSafe call has ended, normally or by a fault of its
\* mutator, it no longer holds the locker: a locker is held only by a call
\* still in progress between its Lock and its Unlock.
C10_LockerReleasedAtEnd == \A m \in Lockers : ~LeftLocked(m)

====
